---- MODULE Spec2Model ----
(***************************************************************************)
(* Model of DuanjuSearchPlugin (src/main.py): one aiohttp session, the     *)
(* adapter _make_request, six verbs that build query parameters and        *)
(* reshape the JSON answer, and the chat command handlers that parse the   *)
(* message text, call a verb and format one reply.                         *)
(*                                                                         *)
(* Python strings are token sequences: a fixed text of the source is one   *)
(* token (written in ASCII here, the source line holds the original), a    *)
(* number is rendered digit by digit.  Message texts and query parameter   *)
(* strings are sequences of one-character tokens.                          *)
(***************************************************************************)
EXTENDS Integers, Sequences, FiniteSets, TLC

VARIABLES
    session,   \* self.session: "none", "open" or "closed"
    op,        \* the last operation: its name, its inputs, the remote answer
    sent,      \* the requests that operation handed to the network
    ret,       \* what the verb returned (a direct verb call)
    replies,   \* the replies the command handler yielded
    raised     \* whether the operation raised to its caller

vars == <<session, op, sent, ret, replies, raised>>

\* ---------------------------------------------------------------- bounds
MaxLen == 4        \* longest text after the command word of a message
MaxResults == 8    \* most entries in a remote search answer
MaxArg == 5        \* largest id / episode argument of a direct verb call
MaxPage == 2       \* largest page argument of a direct verb call

\* ------------------------------------------------------- JSON / Python values
Null == [t |-> "null"]
Num(n) == [t |-> "num", n |-> n]
Str(toks) == [t |-> "str", toks |-> toks]
Arr(items) == [t |-> "arr", items |-> items]
Obj(fields) == [t |-> "obj", fields |-> fields]

\* A Python str that is either a text (tokens) or the json.dumps of a value.
Text(toks) == [json |-> FALSE, toks |-> toks, val |-> Null]
Dumps(v) == [json |-> TRUE, toks |-> <<>>, val |-> v]
NoStr == Text(<<>>)

Min(a, b) == IF a < b THEN a ELSE b

DigitChars == <<"0", "1", "2", "3", "4", "5", "6", "7", "8", "9">>

RECURSIVE NatToStr(_)
NatToStr(n) == IF n < 10 THEN <<DigitChars[n + 1]>>
               ELSE Append(NatToStr(n \div 10), DigitChars[(n % 10) + 1])

\* str(n) of a Python int
IntToStr(n) == IF n < 0 THEN <<"-">> \o NatToStr(0 - n) ELSE NatToStr(n)

IsDigit(c) == \E d \in 1..10 : DigitChars[d] = c
DigitVal(c) == (CHOOSE d \in 1..10 : DigitChars[d] = c) - 1

RECURSIVE DigitsToNat(_)
DigitsToNat(s) == IF s = <<>> THEN 0
                  ELSE 10 * DigitsToNat(SubSeq(s, 1, Len(s) - 1)) + DigitVal(s[Len(s)])

AllDigits(s) == Len(s) > 0 /\ \A i \in 1..Len(s) : IsDigit(s[i])

\* int(tok) of a token without blanks: an optional sign, then digits;
\* anything else raises ValueError.
IsIntLiteral(tok) ==
    \/ AllDigits(tok)
    \/ Len(tok) > 1 /\ tok[1] \in {"-", "+"} /\ AllDigits(Tail(tok))

StrToInt(tok) ==
    IF tok[1] = "-" THEN 0 - DigitsToNat(Tail(tok))
    ELSE IF tok[1] = "+" THEN DigitsToNat(Tail(tok))
    ELSE DigitsToNat(tok)

\* f"{v}" of a value
Render(v) ==
    CASE v.t = "num" -> IntToStr(v.n)
      [] v.t = "str" -> v.toks
      [] v.t = "null" -> <<"None">>
      [] v.t = "arr" -> <<"[list]">>
      [] OTHER -> <<"{dict}">>

RECURSIVE SetToSeq(_)
SetToSeq(S) == IF S = {} THEN <<>>
               ELSE LET x == CHOOSE y \in S : TRUE IN <<x>> \o SetToSeq(S \ {x})

\* `key in v`: "yes", "no", or "raise" (TypeError on None and numbers)
PyIn(key, v) ==
    CASE v.t = "obj" -> IF key \in DOMAIN v.fields THEN "yes" ELSE "no"
      [] v.t = "arr" -> IF \E i \in 1..Len(v.items) : v.items[i] = Str(<<key>>)
                        THEN "yes" ELSE "no"
      [] v.t = "str" -> IF \E i \in 1..Len(v.toks) : v.toks[i] = key
                        THEN "yes" ELSE "no"
      [] OTHER -> "raise"

\* `for x in v`: the items, or a TypeError
PyIterable(v) == v.t \in {"arr", "str", "obj"}
PyItems(v) ==
    CASE v.t = "arr" -> v.items
      [] v.t = "str" -> [i \in 1..Len(v.toks) |-> Str(<<v.toks[i]>>)]
      [] v.t = "obj" -> LET ks == SetToSeq(DOMAIN v.fields)
                        IN [i \in 1..Len(ks) |-> Str(<<ks[i]>>)]
      [] OTHER -> <<>>

\* d.get(key, default) of a dict d
DictGet(d, key, default) ==
    IF key \in DOMAIN d.fields THEN d.fields[key] ELSE default

\* Python truthiness of a value
Truthy(v) ==
    CASE v.t = "null" -> FALSE
      [] v.t = "num" -> v.n # 0
      [] v.t = "str" -> v.toks # <<>>
      [] v.t = "arr" -> v.items # <<>>
      [] OTHER -> DOMAIN v.fields # {}

\* ------------------------------------------------------------ the remote API
StatusOK == 200
StatusCodes == {204, 404, 500}

NoAnswer == [kind |-> "none", status |-> 0, parses |-> FALSE, body |-> Null]
Answer(status, parses, body) ==
    [kind |-> "resp", status |-> status, parses |-> parses, body |-> body]
TransportError == [kind |-> "exc", status |-> 0, parses |-> FALSE, body |-> Null]

ErrorDict(toks) == Obj([error |-> Str(toks)])

Request(endpoint, params) == [endpoint |-> endpoint, params |-> params]

\* _make_request with `if response.ok` in place of `status == 200`
_make_request_any2xx(sess, endpoint, params, o) ==
    IF sess # "open"
    THEN [result |-> ErrorDict(<<"request exception: ", "no open session">>),
          sent |-> <<>>, session |-> sess]
    ELSE LET req == <<Request(endpoint, params)>> IN
         IF o.kind = "resp" /\ o.status \in 200..299 /\ o.parses
         THEN [result |-> o.body, sent |-> req, session |-> sess]
         ELSE IF o.kind = "resp" /\ o.status \notin 200..299
         THEN [result |-> ErrorDict(<<"API request failed: ">> \o IntToStr(o.status)),
               sent |-> req, session |-> sess]
         ELSE [result |-> ErrorDict(<<"request exception: ", "transport">>),
               sent |-> req, session |-> sess]

\* _make_request that opens a session of its own when there is no open one
_make_request_lazy(sess, endpoint, params, o) ==
    LET req == <<Request(endpoint, params)>> IN
    IF o.kind = "resp" /\ o.status = StatusOK /\ o.parses
    THEN [result |-> o.body, sent |-> req, session |-> "open"]
    ELSE IF o.kind = "resp" /\ o.status # StatusOK
    THEN [result |-> ErrorDict(<<"API request failed: ">> \o IntToStr(o.status)),
          sent |-> req, session |-> "open"]
    ELSE [result |-> ErrorDict(<<"request exception: ", "transport">>),
          sent |-> req, session |-> "open"]

\* The adapter: the result dict, the request that reached the network (if
\* any) and self.session after the call.
\* self.session.get(...) reaches the network only on an open session: on None
\* the attribute access raises, on a closed session aiohttp raises.
_make_request(sess, endpoint, params, o) ==
    IF sess # "open"
    THEN [result |-> ErrorDict(<<"request exception: ", "no open session">>),
          sent |-> <<>>, session |-> sess]
    ELSE LET req == <<Request(endpoint, params)>> IN
         IF o.kind = "resp" /\ o.status = StatusOK /\ o.parses
         THEN [result |-> o.body, sent |-> req, session |-> sess]
         ELSE IF o.kind = "resp" /\ o.status # StatusOK
         THEN [result |-> ErrorDict(<<"API request failed: ">> \o IntToStr(o.status)),
               sent |-> req, session |-> sess]
         ELSE [result |-> ErrorDict(<<"request exception: ", "transport">>),
               sent |-> req, session |-> sess]

Returned(s, rq) ==
    [raised |-> FALSE, ret |-> s, sent |-> rq.sent, session |-> rq.session]
Raises(rq) ==
    [raised |-> TRUE, ret |-> NoStr, sent |-> rq.sent, session |-> rq.session]

\* if "error" in result: return f"{label}: {result['error']}"
\* "go" when the verb goes on to reshape the payload.
ErrorCheck(label, rq) ==
    LET has == PyIn("error", rq.result) IN
    IF has = "raise" THEN [go |-> FALSE, out |-> Raises(rq)]
    ELSE IF has = "no" THEN [go |-> TRUE, out |-> Raises(rq)]
    ELSE IF rq.result.t = "obj"
    THEN [go |-> FALSE,
          out |-> Returned(Text(<<label, ": ">> \o Render(rq.result.fields.error)), rq)]
    ELSE [go |-> FALSE, out |-> Raises(rq)]

\* ------------------------------------------------------------------ the verbs
Some(n) == [some |-> TRUE, n |-> n]
None == [some |-> FALSE, n |-> 0]

\* query parameter values as handed to session.get
PStr(chars) == [t |-> "str", chars |-> chars]
PInt(n) == [t |-> "int", n |-> n]

NoParams == <<>>

LabelCategories == "get categories failed"
LabelSearch == "search failed"
LabelCategoryDramas == "get category dramas failed"
LabelRecommend == "get recommendations failed"
LabelLatest == "get latest dramas failed"
LabelEpisodes == "get episode info failed"

AllObjects(items) == \A i \in 1..Len(items) : items[i].t = "obj"

get_categories(sess, o) ==
    LET rq == _make_request(sess, "/vod/categories", NoParams, o)
        chk == ErrorCheck(LabelCategories, rq)
        result == rq.result
    IN  IF ~chk.go THEN chk.out
        ELSE IF result.t # "obj" THEN Raises(rq)
        ELSE LET cats == DictGet(result, "categories", Arr(<<>>)) IN
             IF ~PyIterable(cats) \/ ~AllObjects(PyItems(cats)) THEN Raises(rq)
             ELSE LET items == PyItems(cats)
                      info == [i \in 1..Len(items) |->
                                 Obj([id |-> DictGet(items[i], "type_id", Null),
                                      name |-> DictGet(items[i], "type_name", Null)])]
                  IN Returned(Dumps(Obj([categories |-> Arr(info),
                                         total |-> DictGet(result, "total", Num(0))])), rq)

DramaSummary(d) ==
    Obj([id |-> DictGet(d, "id", Null),
         name |-> DictGet(d, "name", Null),
         cover |-> DictGet(d, "cover", Null),
         update_time |-> DictGet(d, "update_time", Null),
         score |-> DictGet(d, "score", Null)])

SearchParams(name) == [name |-> PStr(name)]

search_dramas(sess, name, o) ==
    LET rq == _make_request(sess, "/vod/search", SearchParams(name), o)
        chk == ErrorCheck(LabelSearch, rq)
        result == rq.result
    IN  IF ~chk.go THEN chk.out
        ELSE IF result.t # "obj" THEN Raises(rq)
        ELSE LET lst == DictGet(result, "list", Arr(<<>>)) IN
             IF ~PyIterable(lst) \/ ~AllObjects(PyItems(lst)) THEN Raises(rq)
             ELSE LET items == PyItems(lst)
                      dramas == [i \in 1..Len(items) |-> DramaSummary(items[i])]
                  IN Returned(Dumps(Obj([total |-> DictGet(result, "total", Num(0)),
                                         dramas |-> Arr(dramas)])), rq)

CategoryParams(category_id, page) ==
    [categoryId |-> PStr(IntToStr(category_id)), page |-> PStr(IntToStr(page))]

get_category_dramas(sess, category_id, page, o) ==
    LET rq == _make_request(sess, "/vod/list", CategoryParams(category_id, page), o)
        chk == ErrorCheck(LabelCategoryDramas, rq)
        result == rq.result
    IN  IF ~chk.go THEN chk.out
        ELSE IF result.t # "obj" THEN Raises(rq)
        ELSE LET lst == DictGet(result, "list", Arr(<<>>)) IN
             IF ~PyIterable(lst) \/ ~AllObjects(PyItems(lst)) THEN Raises(rq)
             ELSE LET items == PyItems(lst)
                      dramas == [i \in 1..Len(items) |-> DramaSummary(items[i])]
                  IN Returned(Dumps(Obj(
                        [total |-> DictGet(result, "total", Num(0)),
                         current_page |-> DictGet(result, "currentPage", Num(page)),
                         total_pages |-> DictGet(result, "totalPages", Num(1)),
                         dramas |-> Arr(dramas)])), rq)

\* the parameters built without the `is not None` test
RecommendParams_always(category_id, size) ==
    [size |-> PStr(IntToStr(size)),
     categoryId |-> IF category_id.some THEN PStr(IntToStr(category_id.n))
                    ELSE PStr(<<"None">>)]

RecommendParams(category_id, size) ==
    IF category_id.some
    THEN [size |-> PStr(IntToStr(size)), categoryId |-> PStr(IntToStr(category_id.n))]
    ELSE [size |-> PStr(IntToStr(size))]

get_recommendations(sess, category_id, size, o) ==
    LET rq == _make_request(sess, "/vod/recommend", RecommendParams(category_id, size), o)
        chk == ErrorCheck(LabelRecommend, rq)
    IN  IF ~chk.go THEN chk.out ELSE Returned(Dumps(rq.result), rq)

LatestParams(page) == [page |-> PStr(IntToStr(page))]

get_latest_dramas(sess, page, o) ==
    LET rq == _make_request(sess, "/vod/latest", LatestParams(page), o)
        chk == ErrorCheck(LabelLatest, rq)
    IN  IF ~chk.go THEN chk.out ELSE Returned(Dumps(rq.result), rq)

EpisodeEndpoint(episode) ==
    IF episode.some THEN "/vod/parse/single" ELSE "/vod/parse/all"

EpisodeParams(drama_id, episode) ==
    IF episode.some
    THEN [id |-> PStr(IntToStr(drama_id)), episode |-> PInt(episode.n)]
    ELSE [id |-> PInt(drama_id)]

get_drama_episodes(sess, drama_id, episode, o) ==
    LET rq == _make_request(sess, EpisodeEndpoint(episode),
                            EpisodeParams(drama_id, episode), o)
        chk == ErrorCheck(LabelEpisodes, rq)
    IN  IF ~chk.go THEN chk.out ELSE Returned(Dumps(rq.result), rq)

\* ------------------------------------------------- answers of the remote API
Drama(i) ==
    Obj([id |-> Num(i), name |-> Str(<<"drama">>), cover |-> Str(<<"cover">>),
         update_time |-> Str(<<"2024">>), score |-> Num(9)])
Dramas(n) == [i \in 1..n |-> Drama(i)]

\* bodies that are JSON but not the documented shape
OddBodies ==
    {Null, Num(7), Str(<<"ok">>), Str(<<"error">>), Arr(<<>>),
     Arr(<<Str(<<"error">>)>>), Obj(<<>>), Obj([error |-> Str(<<"boom">>)])}

Totals(n) == {Num(n), Num(0), Num(n + 3), Null, Str(<<"many">>)}

CategoryBodies ==
    OddBodies
    \cup {Obj([categories |-> Arr([i \in 1..n |->
                  Obj([type_id |-> Num(i), type_name |-> Str(<<"cat">>)])]),
               total |-> Num(n)]) : n \in 0..2}
    \cup {Obj([categories |-> Arr(<<Num(1)>>), total |-> Num(1)]),
          Obj([categories |-> Null]),
          Obj([categories |-> Arr(<<Obj(<<>>)>>)])}

SearchBodies ==
    OddBodies
    \cup UNION {{Obj([list |-> Arr(Dramas(n)), total |-> t]) : t \in Totals(n)}
                : n \in 0..MaxResults}
    \cup {Obj([list |-> Arr(Dramas(n))]) : n \in 0..MaxResults}
    \cup {Obj([list |-> Arr(<<Num(1)>>), total |-> Num(1)]),
          Obj([list |-> Null, total |-> Num(0)])}

ListBodies ==
    OddBodies
    \cup {Obj([list |-> Arr(Dramas(n)), total |-> Num(n)]) : n \in 0..2}
    \cup {Obj([list |-> Arr(Dramas(n)), total |-> Num(n), currentPage |-> Num(2),
               totalPages |-> Num(3)]) : n \in 0..2}
    \cup {Obj([list |-> Arr(<<Str(<<"x">>)>>)]), Obj([list |-> Num(1)])}

EpisodeBodies ==
    OddBodies
    \cup {Obj([url |-> Str(<<"http://u">>)]),
          Obj([url |-> Str(<<"http://u">>), title |-> Str(<<"t">>)]),
          Obj([episodes |-> Null]),
          Obj([episodes |-> Arr(<<Num(1)>>)])}
    \cup {Obj([episodes |-> Arr([i \in 1..n |->
                  Obj([episode |-> Num(i), url |-> Str(<<"http://u">>)])])])
          : n \in {0, 2, 11}}

\* the bodies a direct verb call is tried on
PlainBodies ==
    {Null, Arr(<<>>), Obj([error |-> Str(<<"boom">>)]),
     Obj([list |-> Arr(Dramas(1)), total |-> Num(1)]),
     Obj([url |-> Str(<<"http://u">>)])}

Failures ==
    {Answer(s, FALSE, Null) : s \in StatusCodes}
    \cup {Answer(StatusOK, FALSE, Null), TransportError}

Outcomes(bodies) == {Answer(StatusOK, TRUE, b) : b \in bodies} \cup Failures

\* -------------------------------------------------------------- the state
NoText == <<>>

Init ==
    /\ session = "none"
    /\ op = [name |-> "__init__", text |-> NoText, a1 |-> None, a2 |-> None,
             outcome |-> NoAnswer]
    /\ sent = <<>>
    /\ ret = NoStr
    /\ replies = <<>>
    /\ raised = FALSE

Operation(name, text, a1, a2, o, wasSent) ==
    [name |-> name, text |-> text, a1 |-> a1, a2 |-> a2,
     outcome |-> IF wasSent THEN o ELSE NoAnswer]

\* self.session = aiohttp.ClientSession()
initialize ==
    /\ session' = "open"
    /\ op' = Operation("initialize", NoText, None, None, NoAnswer, FALSE)
    /\ sent' = <<>> /\ ret' = NoStr /\ replies' = <<>> /\ raised' = FALSE

\* if self.session: await self.session.close()
terminate ==
    /\ session' = IF session = "none" THEN "none" ELSE "closed"
    /\ op' = Operation("terminate", NoText, None, None, NoAnswer, FALSE)
    /\ sent' = <<>> /\ ret' = NoStr /\ replies' = <<>> /\ raised' = FALSE

\* a verb called directly (the LLM tool path): r is what the verb did
VerbCall(name, text, a1, a2, o, r) ==
    /\ op' = Operation(name, text, a1, a2, o, r.sent # <<>>)
    /\ session' = r.session
    /\ sent' = r.sent
    /\ ret' = r.ret
    /\ raised' = r.raised
    /\ replies' = <<>>

ArgIds == 0..MaxArg
ArgPages == 1..MaxPage
ArgSizes == {5, 10}
OptIds == {None} \cup {Some(n) : n \in ArgIds}
ArgNames == {<<>>, <<"a">>, <<"a", " ", "1">>}
ArgDramaIds == {0, 12, 123}

tool_get_categories ==
    \E o \in Outcomes(PlainBodies) :
        VerbCall("get_categories", NoText, None, None, o, get_categories(session, o))

tool_search_dramas ==
    \E name \in ArgNames, o \in Outcomes(PlainBodies) :
        VerbCall("search_dramas", name, None, None, o, search_dramas(session, name, o))

tool_get_category_dramas ==
    \E c \in ArgIds, page \in ArgPages, o \in Outcomes(PlainBodies) :
        VerbCall("get_category_dramas", NoText, Some(c), Some(page), o,
                 get_category_dramas(session, c, page, o))

tool_get_recommendations ==
    \E c \in OptIds, size \in ArgSizes, o \in Outcomes(PlainBodies) :
        VerbCall("get_recommendations", NoText, c, Some(size), o,
                 get_recommendations(session, c, size, o))

tool_get_latest_dramas ==
    \E page \in ArgPages, o \in Outcomes(PlainBodies) :
        VerbCall("get_latest_dramas", NoText, Some(page), None, o,
                 get_latest_dramas(session, page, o))

tool_get_drama_episodes ==
    \E d \in ArgDramaIds, e \in OptIds, o \in Outcomes(PlainBodies) :
        VerbCall("get_drama_episodes", NoText, Some(d), e, o,
                 get_drama_episodes(session, d, e, o))

NextVerbs ==
    \/ initialize
    \/ terminate
    \/ tool_get_categories
    \/ tool_search_dramas
    \/ tool_get_category_dramas
    \/ tool_get_recommendations
    \/ tool_get_latest_dramas
    \/ tool_get_drama_episodes

\* the plugin driven through its lifecycle hooks and its six LLM tools
SpecVerbs == Init /\ [][NextVerbs]_vars

\* ------------------------------------------------------ message text helpers
HasBlank(s) == \E i \in 1..Len(s) : s[i] = " "
FirstBlank(s) == CHOOSE i \in 1..Len(s) : s[i] = " " /\ \A j \in 1..(i - 1) : s[j] # " "

\* s.split(" "): the pieces between single blanks, empty pieces kept
RECURSIVE Split(_)
Split(s) ==
    IF ~HasBlank(s) THEN <<s>>
    ELSE <<SubSeq(s, 1, FirstBlank(s) - 1)>> \o Split(SubSeq(s, FirstBlank(s) + 1, Len(s)))

\* s.split(" ", 1)
Split1(s) ==
    IF ~HasBlank(s) THEN <<s>>
    ELSE <<SubSeq(s, 1, FirstBlank(s) - 1), SubSeq(s, FirstBlank(s) + 1, Len(s))>>

RECURSIVE LStrip(_)
LStrip(s) == IF s # <<>> /\ s[1] = " " THEN LStrip(Tail(s)) ELSE s
RECURSIVE RStrip(_)
RStrip(s) == IF s # <<>> /\ s[Len(s)] = " " THEN RStrip(SubSeq(s, 1, Len(s) - 1)) ELSE s
\* s.strip()
Strip(s) == RStrip(LStrip(s))

RECURSIVE Concat(_)
Concat(ss) == IF ss = <<>> THEN <<>> ELSE Head(ss) \o Concat(Tail(ss))

\* ------------------------------------------------------- the command handlers
\* what a handler did: the replies it yielded, or that it raised to the host
Reply(text, r) ==
    [raised |-> FALSE, replies |-> <<text>>, sent |-> r.sent, session |-> r.session]
Propagate(r) ==
    [raised |-> TRUE, replies |-> <<>>, sent |-> r.sent, session |-> r.session]
EarlyReply(toks, sess) ==
    [raised |-> FALSE, replies |-> <<Text(toks)>>, sent |-> <<>>, session |-> sess]

\* the outcome of a try block that builds `text`
Built(toks) == [ok |-> TRUE, toks |-> toks]
Failed == [ok |-> FALSE, toks |-> <<>>]
\* except: text = result
TextOr(t, result) == IF t.ok THEN Text(t.toks) ELSE result

HasKey(v, k) == v.t = "obj" /\ k \in DOMAIN v.fields
NL == "<nl>"

CategoriesText(data) ==
    IF PyIn("categories", data) = "raise" THEN Failed
    ELSE IF PyIn("categories", data) = "no" \/ data.t # "obj" THEN Failed
    ELSE LET cats == data.fields.categories IN
         IF ~PyIterable(cats) THEN Failed
         ELSE LET items == PyItems(cats) IN
              IF \E i \in 1..Len(items) : ~HasKey(items[i], "name") \/ ~HasKey(items[i], "id")
                 \/ ~HasKey(data, "total")
              THEN Failed
              ELSE Built(<<"categories:", NL, NL>>
                         \o Concat([i \in 1..Len(items) |->
                               <<"[cat] ">> \o Render(items[i].fields.name) \o <<" (ID: ">>
                               \o Render(items[i].fields.id) \o <<")", NL>>])
                         \o <<NL, "total ">> \o Render(data.fields.total)
                         \o <<" categories">>)

cmd_categories_run(sess, o) ==
    LET r == get_categories(sess, o) IN
    IF r.raised THEN Propagate(r)
    ELSE Reply(TextOr(IF r.ret.json THEN CategoriesText(r.ret.val) ELSE Failed, r.ret), r)

HelpText == <<"help">>

UsageSearch == <<"usage: search <name>">>
EntryMark == "[drama] "
ScoreMark == "score: "
IdMark == "ID: "
UpdatedMark == "updated: "
MoreMark == "... more: "
MoreTail == " results"
SearchShown == 5

\* drama['name'] ... of a list entry: KeyError / TypeError unless all are there
Subscriptable(d) ==
    /\ HasKey(d, "name") /\ HasKey(d, "score")
    /\ HasKey(d, "id") /\ HasKey(d, "update_time")

DramaLines(d) ==
    <<EntryMark>> \o Render(d.fields.name) \o <<NL, ScoreMark>>
    \o Render(d.fields.score) \o <<NL, IdMark>> \o Render(d.fields.id)
    \o <<NL, UpdatedMark>> \o Render(d.fields.update_time) \o <<NL, NL>>

\* the try block of cmd_search with the first 6 results shown
SearchText_six(name, data) ==
    IF PyIn("dramas", data) = "raise" THEN Failed
    ELSE IF PyIn("dramas", data) = "yes" /\ data.t # "obj" THEN Failed
    ELSE IF PyIn("dramas", data) = "no" \/ ~Truthy(data.fields.dramas)
    THEN Built(<<"nothing found for '">> \o name \o <<"'">>)
    ELSE LET dramas == data.fields.dramas IN
         IF dramas.t # "arr" THEN Failed
         ELSE LET shown == SubSeq(dramas.items, 1, Min(6, Len(dramas.items))) IN
              IF \E i \in 1..Len(shown) : ~Subscriptable(shown[i]) THEN Failed
              ELSE IF ~HasKey(data, "total") \/ data.fields.total.t # "num" THEN Failed
              ELSE Built(<<"search '">> \o name \o <<"' results:", NL, NL>>
                         \o Concat([i \in 1..Len(shown) |-> DramaLines(shown[i])])
                         \o IF data.fields.total.n > 5
                            THEN <<MoreMark>> \o IntToStr(data.fields.total.n - 5)
                                 \o <<MoreTail>>
                            ELSE <<>>)

\* the try block of cmd_search, given the parsed result
SearchText(name, data) ==
    IF PyIn("dramas", data) = "raise" THEN Failed
    ELSE IF PyIn("dramas", data) = "yes" /\ data.t # "obj" THEN Failed
    ELSE IF PyIn("dramas", data) = "no" \/ ~Truthy(data.fields.dramas)
    THEN Built(<<"nothing found for '">> \o name \o <<"'">>)
    ELSE LET dramas == data.fields.dramas IN
         IF dramas.t # "arr" THEN Failed
         ELSE LET shown == SubSeq(dramas.items, 1, Min(SearchShown, Len(dramas.items))) IN
              IF \E i \in 1..Len(shown) : ~Subscriptable(shown[i]) THEN Failed
              ELSE IF ~HasKey(data, "total") \/ data.fields.total.t # "num" THEN Failed
              ELSE Built(<<"search '">> \o name \o <<"' results:", NL, NL>>
                         \o Concat([i \in 1..Len(shown) |-> DramaLines(shown[i])])
                         \o IF data.fields.total.n > 5
                            THEN <<MoreMark>> \o IntToStr(data.fields.total.n - 5)
                                 \o <<MoreTail>>
                            ELSE <<>>)

cmd_search_run(sess, msg, o) ==
    LET args == Split1(msg) IN
    IF Len(args) < 2 THEN EarlyReply(UsageSearch, sess)
    ELSE LET drama_name == Strip(args[2])
             r == search_dramas(sess, drama_name, o)
         IN IF r.raised THEN Propagate(r)
            ELSE Reply(TextOr(IF r.ret.json THEN SearchText(drama_name, r.ret.val)
                              ELSE Failed, r.ret), r)

\* drama.get('name', ...) of each entry of data["list"]
GetLines(d) ==
    <<EntryMark>> \o Render(DictGet(d, "name", Str(<<"unknown">>))) \o <<NL, ScoreMark>>
    \o Render(DictGet(d, "score", Str(<<"N/A">>))) \o <<NL, IdMark>>
    \o Render(DictGet(d, "id", Str(<<"N/A">>))) \o <<NL, UpdatedMark>>
    \o Render(DictGet(d, "update_time", Str(<<"N/A">>))) \o <<NL, NL>>

\* the if / elif / else of cmd_recommend and cmd_latest; paged adds the page line
ListText(header, empty, paged, data) ==
    IF PyIn("list", data) = "raise" THEN Failed
    ELSE IF PyIn("list", data) = "yes" /\ data.t # "obj" THEN Failed
    ELSE IF PyIn("list", data) = "yes" /\ Truthy(data.fields.list)
    THEN LET lst == data.fields.list IN
         IF ~PyIterable(lst) \/ ~AllObjects(PyItems(lst)) THEN Failed
         ELSE Built(<<header, NL, NL>>
                    \o Concat([i \in 1..Len(PyItems(lst)) |-> GetLines(PyItems(lst)[i])])
                    \o IF paged /\ HasKey(data, "totalPages") /\ HasKey(data, "currentPage")
                       THEN <<"page ">> \o Render(data.fields.currentPage) \o <<"/">>
                            \o Render(data.fields.totalPages) \o <<", total ">>
                            \o Render(DictGet(data, "total", Num(0)))
                       ELSE <<>>)
    ELSE IF PyIn("error", data) = "yes"
    THEN IF data.t = "obj" THEN Built(<<"[x] ">> \o Render(data.fields.error)) ELSE Failed
    ELSE Built(<<empty>>)

RecommendSize == 5

cmd_recommend_run(sess, o) ==
    LET r == get_recommendations(sess, None, RecommendSize, o) IN
    IF r.raised THEN Propagate(r)
    ELSE Reply(TextOr(IF r.ret.json
                      THEN ListText("recommended:", "no recommendations", FALSE, r.ret.val)
                      ELSE Failed, r.ret), r)

DefaultPage == 1

cmd_latest_run(sess, o) ==
    LET r == get_latest_dramas(sess, DefaultPage, o) IN
    IF r.raised THEN Propagate(r)
    ELSE Reply(TextOr(IF r.ret.json
                      THEN ListText("latest:", "no latest dramas", TRUE, r.ret.val)
                      ELSE Failed, r.ret), r)

UsageCategory == <<"usage: category <id> [page]">>
FormatErrorCategory == <<"format error: category id and page must be numbers">>
UsageEpisodes == <<"usage: episodes <id> [episode]">>
FormatErrorEpisodes == <<"format error: drama id and episode must be numbers">>

\* the try block that parses the arguments, with a page that is not a number
\* read as page 1
ParseCategoryArgs_lenient(args) ==
    IF ~IsIntLiteral(args[2]) THEN [ok |-> FALSE, first |-> 0, second |-> None]
    ELSE [ok |-> TRUE, first |-> StrToInt(args[2]),
          second |-> IF Len(args) > 2 /\ IsIntLiteral(args[3])
                     THEN Some(StrToInt(args[3])) ELSE Some(1)]

\* category_id = int(args[1]); page = int(args[2]) if len(args) > 2 else 1
ParseCategoryArgs(args) ==
    IF ~IsIntLiteral(args[2]) \/ (Len(args) > 2 /\ ~IsIntLiteral(args[3]))
    THEN [ok |-> FALSE, first |-> 0, second |-> None]
    ELSE [ok |-> TRUE, first |-> StrToInt(args[2]),
          second |-> IF Len(args) > 2 THEN Some(StrToInt(args[3])) ELSE Some(DefaultPage)]

\* drama_id = int(args[1]); episode = int(args[2]) if len(args) > 2 else None
ParseEpisodeArgs(args) ==
    IF ~IsIntLiteral(args[2]) \/ (Len(args) > 2 /\ ~IsIntLiteral(args[3]))
    THEN [ok |-> FALSE, first |-> 0, second |-> None]
    ELSE [ok |-> TRUE, first |-> StrToInt(args[2]),
          second |-> IF Len(args) > 2 THEN Some(StrToInt(args[3])) ELSE None]

CategoryText(category_id, data) ==
    IF PyIn("dramas", data) = "raise" THEN Failed
    ELSE IF PyIn("dramas", data) = "yes" /\ data.t # "obj" THEN Failed
    ELSE IF PyIn("dramas", data) = "no" \/ ~Truthy(data.fields.dramas)
    THEN Built(<<"no dramas in category ">> \o IntToStr(category_id))
    ELSE LET dramas == data.fields.dramas IN
         IF ~HasKey(data, "current_page") \/ ~HasKey(data, "total_pages")
            \/ ~HasKey(data, "total") \/ ~PyIterable(dramas)
            \/ \E i \in 1..Len(PyItems(dramas)) : ~Subscriptable(PyItems(dramas)[i])
         THEN Failed
         ELSE Built(<<"category ">> \o IntToStr(category_id) \o <<" page ">>
                    \o Render(data.fields.current_page) \o <<"/">>
                    \o Render(data.fields.total_pages) \o <<NL, NL>>
                    \o Concat([i \in 1..Len(dramas.items) |-> DramaLines(dramas.items[i])])
                    \o <<"total ">> \o Render(data.fields.total))

cmd_category_dramas_run(sess, msg, o) ==
    LET args == Split(msg) IN
    IF Len(args) < 2 THEN EarlyReply(UsageCategory, sess)
    ELSE LET parsed == ParseCategoryArgs(args) IN
         IF ~parsed.ok THEN EarlyReply(FormatErrorCategory, sess)
         ELSE LET r == get_category_dramas(sess, parsed.first, parsed.second.n, o) IN
              IF r.raised THEN Propagate(r)
              ELSE Reply(TextOr(IF r.ret.json THEN CategoryText(parsed.first, r.ret.val)
                                ELSE Failed, r.ret), r)

EpisodesShown == 10

EpisodeLine(ep) ==
    <<"episode ">> \o Render(DictGet(ep, "episode", Str(<<"N/A">>))) \o <<": ">>
    \o Render(DictGet(ep, "url", Str(<<"N/A">>))) \o <<NL>>

EpisodesText(drama_id, episode, data) ==
    IF PyIn("error", data) = "raise" THEN Failed
    ELSE IF PyIn("error", data) = "yes"
    THEN IF data.t = "obj" THEN Built(<<"[x] ">> \o Render(data.fields.error)) ELSE Failed
    ELSE IF episode.some
    THEN IF PyIn("url", data) = "yes"
         THEN IF data.t # "obj" THEN Failed
              ELSE Built(<<"drama ">> \o IntToStr(drama_id) \o <<" episode ">>
                         \o IntToStr(episode.n) \o <<" link: ">> \o Render(data.fields.url)
                         \o <<NL>>
                         \o IF PyIn("title", data) = "yes"
                            THEN <<"title: ">> \o Render(data.fields.title) \o <<NL>>
                            ELSE <<>>)
         ELSE Built(<<"no link for drama ">> \o IntToStr(drama_id) \o <<" episode ">>
                    \o IntToStr(episode.n))
    ELSE IF PyIn("episodes", data) = "yes" /\ data.t # "obj" THEN Failed
    ELSE IF PyIn("episodes", data) = "yes" /\ Truthy(data.fields.episodes)
    THEN LET eps == data.fields.episodes IN
         IF eps.t # "arr" THEN Failed
         ELSE LET shown == SubSeq(eps.items, 1, Min(EpisodesShown, Len(eps.items))) IN
              IF ~AllObjects(shown) THEN Failed
              ELSE Built(<<"drama ">> \o IntToStr(drama_id) \o <<" all episodes:", NL, NL>>
                         \o Concat([i \in 1..Len(shown) |-> EpisodeLine(shown[i])])
                         \o IF Len(eps.items) > EpisodesShown
                            THEN <<NL, "... more episodes: ">>
                                 \o IntToStr(Len(eps.items) - EpisodesShown)
                            ELSE <<>>)
    ELSE IF PyIn("url", data) = "yes"
    THEN IF data.t # "obj" THEN Failed
         ELSE Built(<<"drama ">> \o IntToStr(drama_id) \o <<" link: ">>
                    \o Render(data.fields.url) \o <<NL>>)
    ELSE Built(<<"no link for drama ">> \o IntToStr(drama_id))

cmd_get_episodes_run(sess, msg, o) ==
    LET args == Split(msg) IN
    IF Len(args) < 2 THEN EarlyReply(UsageEpisodes, sess)
    ELSE LET parsed == ParseEpisodeArgs(args) IN
         IF ~parsed.ok THEN EarlyReply(FormatErrorEpisodes, sess)
         ELSE LET r == get_drama_episodes(sess, parsed.first, parsed.second, o) IN
              IF r.raised THEN Propagate(r)
              ELSE Reply(TextOr(IF r.ret.json
                                THEN EpisodesText(parsed.first, parsed.second, r.ret.val)
                                ELSE Failed, r.ret), r)

\* ------------------------------------------------------ the command actions
Chars == {" ", "1", "a"}
CommandWord == "cmd"

\* message_str: the command word alone, or followed by a blank and a text
Messages ==
    {<<CommandWord>>}
    \cup {<<CommandWord, " ">> \o rest :
            rest \in UNION {[1..k -> Chars] : k \in 0..(MaxLen - 1)}}

OneResult == Obj([list |-> Arr(Dramas(1)), total |-> Num(1)])
OneLink == Obj([url |-> Str(<<"http://u">>)])

FewOutcomes(body) == {Answer(StatusOK, TRUE, body), TransportError}

\* every message on two answers, and a few messages on every answer
SearchInputs ==
    (Messages \X FewOutcomes(OneResult))
    \cup ({<<CommandWord, " ", "a">>} \X Outcomes(SearchBodies))

CategoryInputs ==
    (Messages \X FewOutcomes(OneResult))
    \cup ({<<CommandWord, " ", "1">>, <<CommandWord, " ", "1", " ", "1">>}
          \X Outcomes(ListBodies))

EpisodeInputs ==
    (Messages \X FewOutcomes(OneLink))
    \cup ({<<CommandWord, " ", "1">>, <<CommandWord, " ", "1", " ", "1">>}
          \X Outcomes(EpisodeBodies))

CommandCall(name, text, o, h) ==
    /\ op' = Operation(name, text, None, None, o, h.sent # <<>>)
    /\ session' = h.session
    /\ sent' = h.sent
    /\ replies' = h.replies
    /\ raised' = h.raised
    /\ ret' = NoStr

cmd_categories ==
    \E o \in Outcomes(CategoryBodies) :
        CommandCall("cmd_categories", <<CommandWord>>, o, cmd_categories_run(session, o))

cmd_help ==
    CommandCall("cmd_help", <<CommandWord>>, NoAnswer, EarlyReply(HelpText, session))

cmd_search ==
    \E in \in SearchInputs :
        CommandCall("cmd_search", in[1], in[2], cmd_search_run(session, in[1], in[2]))

cmd_recommend ==
    \E o \in Outcomes(ListBodies) :
        CommandCall("cmd_recommend", <<CommandWord>>, o, cmd_recommend_run(session, o))

cmd_latest ==
    \E o \in Outcomes(ListBodies) :
        CommandCall("cmd_latest", <<CommandWord>>, o, cmd_latest_run(session, o))

cmd_category_dramas ==
    \E in \in CategoryInputs :
        CommandCall("cmd_category_dramas", in[1], in[2],
                    cmd_category_dramas_run(session, in[1], in[2]))

cmd_get_episodes ==
    \E in \in EpisodeInputs :
        CommandCall("cmd_get_episodes", in[1], in[2],
                    cmd_get_episodes_run(session, in[1], in[2]))

NextCmds ==
    \/ initialize
    \/ terminate
    \/ cmd_categories
    \/ cmd_help
    \/ cmd_search
    \/ cmd_recommend
    \/ cmd_latest
    \/ cmd_category_dramas
    \/ cmd_get_episodes

\* the plugin driven through its lifecycle hooks and its chat commands
SpecCmds == Init /\ [][NextCmds]_vars

\* ------------------------------------------------------------------ claims
VerbNames ==
    {"get_categories", "search_dramas", "get_category_dramas",
     "get_recommendations", "get_latest_dramas", "get_drama_episodes"}

FailLabel(name) ==
    CASE name = "get_categories" -> LabelCategories
      [] name = "search_dramas" -> LabelSearch
      [] name = "get_category_dramas" -> LabelCategoryDramas
      [] name = "get_recommendations" -> LabelRecommend
      [] name = "get_latest_dramas" -> LabelLatest
      [] OTHER -> LabelEpisodes

HasToken(toks, tok) == \E i \in 1..Len(toks) : toks[i] = tok

\* run occurs in toks as a contiguous piece
HasRun(toks, run) ==
    \E i \in 1..(Len(toks) - Len(run) + 1) : SubSeq(toks, i, i + Len(run) - 1) = run

\* the integer a transmitted parameter value stands for
ParamInt(p) == IF p.t = "int" THEN p.n ELSE StrToInt(p.chars)

\* C1: episode lookup called with displayed episode e >= 1 transmits
\* episode = e - 1 to the single-episode endpoint.
C1_EpisodeSentZeroBased ==
    (op.name = "get_drama_episodes" /\ op.a2.some /\ op.a2.n >= 1 /\ sent # <<>>)
    => /\ sent[1].endpoint = "/vod/parse/single"
       /\ "episode" \in DOMAIN sent[1].params
       /\ ParamInt(sent[1].params.episode) = op.a2.n - 1

\* C2: a verb whose request is answered with a non-200 status returns, without
\* raising, a text that holds the verb's failure label and the status code.
C2_StatusFailureIsLabelled ==
    (op.name \in VerbNames /\ op.outcome.kind = "resp" /\ op.outcome.status # StatusOK)
    => /\ ~raised
       /\ ~ret.json
       /\ HasToken(ret.toks, FailLabel(op.name))
       /\ HasRun(ret.toks, IntToStr(op.outcome.status))

C2_Witness ==
    /\ op.name = "get_drama_episodes"
    /\ op.outcome.kind = "resp" /\ op.outcome.status = 404
    /\ ~raised
    /\ HasToken(ret.toks, LabelEpisodes)
    /\ HasRun(ret.toks, <<"4", "0", "4">>)

\* C6: get_recommendations sends categoryId exactly when a category_id was
\* given, then as the string form of it, and always sends size as a string.
C6_CategoryIdOnlyWhenGiven ==
    (op.name = "get_recommendations" /\ sent # <<>>)
    => LET p == sent[1].params IN
       /\ ("categoryId" \in DOMAIN p) <=> op.a1.some
       /\ op.a1.some => /\ p.categoryId.t = "str"
                        /\ IsIntLiteral(p.categoryId.chars)
                        /\ StrToInt(p.categoryId.chars) = op.a1.n
       /\ "size" \in DOMAIN p
       /\ p.size.t = "str"
       /\ IsIntLiteral(p.size.chars)
       /\ StrToInt(p.size.chars) = op.a2.n

C6_Witness ==
    /\ op.name = "get_recommendations"
    /\ ~op.a1.some
    /\ Len(sent) = 1
    /\ DOMAIN sent[1].params = {"size"}

\* C8: every query parameter value a verb hands to the adapter is a string.
C8_AllParamsAreStrings ==
    \A i \in 1..Len(sent) :
        \A k \in DOMAIN sent[i].params : sent[i].params[k].t = "str"

\* C10: a verb call leaves the session as it was; called without an open
\* session it sends nothing and returns its failure label without raising.
C10_VerbsLeaveSessionAlone ==
    [][op'.name \in VerbNames
         => /\ session' = session
            /\ session # "open" => /\ sent' = <<>>
                                   /\ ~raised'
                                   /\ ~ret'.json
                                   /\ HasToken(ret'.toks, FailLabel(op'.name))]_vars

C10_Witness ==
    /\ op.name = "search_dramas"
    /\ session = "closed"
    /\ sent = <<>>
    /\ ~raised
    /\ HasToken(ret.toks, LabelSearch)

CmdNames ==
    {"cmd_categories", "cmd_search", "cmd_recommend", "cmd_latest",
     "cmd_category_dramas", "cmd_get_episodes"}

\* C3: every command handler emits exactly one reply and raises nothing to the
\* host, whatever the argument text and whatever the adapter's outcome.
C3_OneReplyNeverRaises ==
    op.name \in CmdNames => ~raised /\ Len(replies) = 1

ArgCmds == {"cmd_category_dramas", "cmd_get_episodes"}

FormatError(name) ==
    IF name = "cmd_category_dramas" THEN FormatErrorCategory ELSE FormatErrorEpisodes

\* a supplied positional argument that is no integer literal
BadArgs(args) ==
    /\ Len(args) >= 2
    /\ \/ ~IsIntLiteral(args[2])
       \/ Len(args) >= 3 /\ ~IsIntLiteral(args[3])

\* C4: list-by-category and episode lookup answer a non-integer argument with
\* the parameter-format error and send nothing; they send a request only when
\* every supplied argument is an integer literal.
C4_BadArgumentSendsNothing ==
    op.name \in ArgCmds
    => LET args == Split(op.text) IN
       /\ BadArgs(args) => /\ sent = <<>>
                           /\ ~raised
                           /\ replies = <<Text(FormatError(op.name))>>
       /\ sent # <<>> => Len(args) >= 2 /\ ~BadArgs(args)

C4_Witness ==
    /\ op.name = "cmd_category_dramas"
    /\ op.text = <<CommandWord, " ", "1", " ", "a">>
    /\ session = "open"
    /\ sent = <<>>
    /\ replies = <<Text(FormatErrorCategory)>>

\* the reply of a search command whose request was answered 200 with a list of
\* n >= 1 result objects
SearchSucceeded ==
    /\ op.name = "cmd_search"
    /\ op.outcome.kind = "resp" /\ op.outcome.status = StatusOK /\ op.outcome.parses
    /\ op.outcome.body.t = "obj"
    /\ "error" \notin DOMAIN op.outcome.body.fields
    /\ "list" \in DOMAIN op.outcome.body.fields
    /\ op.outcome.body.fields.list.t = "arr"
    /\ Len(op.outcome.body.fields.list.items) >= 1
    /\ AllObjects(op.outcome.body.fields.list.items)

Results == op.outcome.body.fields.list.items

MarkPositions(toks, mark) == {i \in 1..Len(toks) : toks[i] = mark}

\* the number written right after position p
NumberAfter(toks, p) ==
    LET e == CHOOSE j \in (p + 1)..(Len(toks) + 1) :
                 /\ j = Len(toks) + 1 \/ ~IsDigit(toks[j])
                 /\ \A k \in (p + 1)..(j - 1) : IsDigit(toks[k])
    IN DigitsToNat(SubSeq(toks, p + 1, e - 1))

\* the reply shows the first `count` results, in order, and no other
ShowsFirst(toks, count) ==
    LET P == MarkPositions(toks, IdMark) IN
    /\ Cardinality(MarkPositions(toks, EntryMark)) = count
    /\ Cardinality(P) = count
    /\ \A p \in P :
          LET k == Cardinality({q \in P : q < p}) + 1
          IN Results[k].fields.id.t = "num"
             /\ NumberAfter(toks, p) = Results[k].fields.id.n

HasNote(toks, hidden) == HasRun(toks, <<MoreMark>> \o IntToStr(hidden) \o <<MoreTail>>)

C9_BlankNameRejected ==
    (op.name = "cmd_search" /\ Strip(Tail(op.text)) = <<>>)
    => /\ sent = <<>>
       /\ replies = <<Text(UsageSearch)>>

====
